---- MODULE Spec2Model ----
(***************************************************************************)
(* Gift lifecycle of the Gift App backend (src/backend/backend.py).        *)
(*                                                                         *)
(* The backend is a stateless facade: every handler is a short series of   *)
(* calls to the database.  Each database call is atomic; several server    *)
(* processes may run handlers at the same time, so two handlers interleave *)
(* at the granularity of their database calls.  wrap, draw, open, get and  *)
(* the two lists make one call each and are single steps.  claim reads     *)
(* (select) and then writes (update, insert): two steps, the first taken   *)
(* when the request arrives.  generate and cleanup work on the bucket of   *)
(* the storage service, one call each.  create_or_get_user works on the    *)
(* users table.  The rate limiter keeps, in the memory of one process, a   *)
(* list of request times per client address; check_rate_limit is one step  *)
(* and reads the time of the call from the variable clock.                 *)
(***************************************************************************)
EXTENDS Integers, Sequences, FiniteSets, Bags, TLC

(***************************************************************************)
(* Bounds of the model.                                                    *)
(***************************************************************************)
MaxGifts == 2
MaxReq == 2
MaxObjects == 2
MaxWrapped == 2
MaxBlobs == 2
MaxNewUsers == 2
MaxTicks == 3
MaxCalls == 2

(***************************************************************************)
(* Values.                                                                 *)
(***************************************************************************)
NULL == "null"
UserOrder == <<"A", "B", "C">>
Users == {UserOrder[i] : i \in 1..Len(UserOrder)}
GiftOrder == <<"G1", "G2", "G3", "G4">>
GiftIds == {GiftOrder[i] : i \in 1..MaxGifts}
MalformedIds == {"not-a-uuid"}
Reqs == 1..MaxReq
Names == {"Box"}
Prompts == {NULL}
UrlA == "https://x/a.glb"
UrlB == "https://x/b.glb"
Urls == {UrlA, UrlB}

(***************************************************************************)
(* URLs of objects of the bucket.  TempUrlOrder are the public URLs of the *)
(* objects that generate_3d_model uploads, in the order of their upload;   *)
(* UserUrl is the URL of an object in a user's folder; DisguisedUrl names  *)
(* the same object behind an address with a path segment "temp".           *)
(***************************************************************************)
TempIds == <<"T1", "T2", "T3", "T4">>
TempUrlOrder ==
    << "https://p.supabase.co/storage/v1/object/public/gifts/temp/T1/model.glb",
       "https://p.supabase.co/storage/v1/object/public/gifts/temp/T2/model.glb",
       "https://p.supabase.co/storage/v1/object/public/gifts/temp/T3/model.glb",
       "https://p.supabase.co/storage/v1/object/public/gifts/temp/T4/model.glb" >>
TempUrls == {TempUrlOrder[i] : i \in 1..MaxBlobs}
UserUrl == "https://p.supabase.co/storage/v1/object/public/gifts/A/G1/model.glb"
DisguisedUrl == "https://h/temp/storage/v1/object/public/gifts/A/G1/model.glb"
CleanupUrls == TempUrls \cup {UserUrl, DisguisedUrl, UrlA}

(***************************************************************************)
(* Emails.  The users of the model are registered, each with an email; a   *)
(* new user gets the next id of UserIdOrder.  The requests of              *)
(* create_or_get_user carry the email of a registered user or one of       *)
(* MaxNewUsers new emails, as such, in upper case or with a space before   *)
(* it, or a string that is no email.                                       *)
(***************************************************************************)
UserIdOrder == <<"U1", "U2", "U3", "U4">>
LowerEmails == <<"a@x.io", "n1@x.io", "n2@x.io", "n3@x.io", "n4@x.io">>
UpperEmails == <<"A@X.IO", "N1@X.IO", "N2@X.IO", "N3@X.IO", "N4@X.IO">>
PaddedEmails == <<" a@x.io", " n1@x.io", " n2@x.io", " n3@x.io", " n4@x.io">>
EmailIndexes == 1..(MaxNewUsers + 1)
EmailInputs ==
    {LowerEmails[i] : i \in EmailIndexes} \cup {UpperEmails[i] : i \in EmailIndexes}
        \cup {PaddedEmails[i] : i \in EmailIndexes} \cup {"not-an-email"}
RegisteredUsers ==
    [u \in Users |->
        [id |-> u, email |-> IF u = "A" THEN "a@x.io" ELSE IF u = "B" THEN "b@x.io" ELSE "c@x.io"]]

RATE_LIMIT_REQUESTS == 100
RATE_LIMIT_WINDOW == 60

(***************************************************************************)
(* The clients of the limiter, by the address that get_client_ip returns.  *)
(* The requests of the lifecycle come from one client.                     *)
(***************************************************************************)
Clients == {"10.0.0.1", "10.0.0.2"}
TheClient == "10.0.0.1"

(***************************************************************************)
(* users, gifts and gift_openings are the tables of the database, storage  *)
(* the keys of the objects in the bucket.  rate_limit_store holds, for     *)
(* each client, the timestamps of the limiter as a bag (their order plays  *)
(* no part), and clock is the time in seconds that datetime.utcnow() gives *)
(* the limiter.  claims are the claim requests and resp the exchange that  *)
(* the step just taken completed.                                          *)
(***************************************************************************)
VARIABLES users, gifts, gift_openings, storage, rate_limit_store, clock, claims, resp

vars == <<users, gifts, gift_openings, storage, rate_limit_store, clock, claims, resp>>

(* A validation that lets every string through. *)
validate_uuid_any(value) == TRUE

(***************************************************************************)
(* validate_uuid: whether the string parses as a UUID.                     *)
(***************************************************************************)
validate_uuid(value) == value \notin MalformedIds

(* A window that keeps the timestamps that are exactly as old as it is. *)
CleanedInclusive(client_id) ==
    LET window_start == clock - RATE_LIMIT_WINDOW
        kept == {ts \in DOMAIN rate_limit_store[client_id] : ts >= window_start}
    IN  [ts \in kept |-> rate_limit_store[client_id][ts]]

(***************************************************************************)
(* check_rate_limit: the client's list without its old entries, those not  *)
(* after window_start.                                                     *)
(***************************************************************************)
Cleaned(client_id) ==
    LET window_start == clock - RATE_LIMIT_WINDOW
        kept == {ts \in DOMAIN rate_limit_store[client_id] : ts > window_start}
    IN  [ts \in kept |-> rate_limit_store[client_id][ts]]

(* A limit that lets one request more through. *)
check_rate_limit_over(client_id) ==
    ~(BagCardinality(Cleaned(client_id)) > RATE_LIMIT_REQUESTS)

(***************************************************************************)
(* check_rate_limit: what it returns (TRUE: allowed), and the store it     *)
(* leaves: the cleaned list, with the time of the request when allowed.    *)
(***************************************************************************)
check_rate_limit(client_id) ==
    ~(BagCardinality(Cleaned(client_id)) >= RATE_LIMIT_REQUESTS)

RateLimitStore(client_id) ==
    [rate_limit_store EXCEPT ![client_id] =
        IF check_rate_limit(client_id)
        THEN Cleaned(client_id) (+) SetToBag({clock})
        ELSE Cleaned(client_id)]

(***************************************************************************)
(* rate_limit_middleware in the handlers of the lifecycle: whether the     *)
(* request is refused, and the store after a request that is let through   *)
(* (RateLimitAdd) or refused (RateLimitRefuse).                            *)
(***************************************************************************)
RateLimitExceeded == ~check_rate_limit(TheClient)

RateLimitAdd == rate_limit_store' = RateLimitStore(TheClient)

RateLimitRefuse == rate_limit_store' = RateLimitStore(TheClient)

(* The number of timestamps stored for the client. *)
Stored(client_id) == BagCardinality(rate_limit_store[client_id])

(***************************************************************************)
(* str.split("/") of the URLs of the model.                                *)
(***************************************************************************)
SplitSlash(url) ==
    IF \E i \in 1..Len(TempUrlOrder) : url = TempUrlOrder[i]
    THEN LET i == CHOOSE j \in 1..Len(TempUrlOrder) : url = TempUrlOrder[j]
         IN  <<"https:", "", "p.supabase.co", "storage", "v1", "object", "public",
               "gifts", "temp", TempIds[i], "model.glb">>
    ELSE IF url = UserUrl
    THEN <<"https:", "", "p.supabase.co", "storage", "v1", "object", "public",
           "gifts", "A", "G1", "model.glb">>
    ELSE IF url = DisguisedUrl
    THEN <<"https:", "", "h", "temp", "storage", "v1", "object", "public",
           "gifts", "A", "G1", "model.glb">>
    ELSE IF url = UrlA THEN <<"https:", "", "x", "a.glb">>
    ELSE IF url = UrlB THEN <<"https:", "", "x", "b.glb">>
    ELSE <<url>>

(***************************************************************************)
(* The positions at which the segments pattern, with a slash before and    *)
(* after it, occur in url: "/temp/" in url, and the separators of          *)
(* url.split("/storage/v1/object/public/gifts/").                          *)
(***************************************************************************)
Occurrences(url, pattern) ==
    LET parts == SplitSlash(url)
    IN  {i \in 2..(Len(parts) - Len(pattern)) :
            \A k \in 1..Len(pattern) : parts[i + k - 1] = pattern[k]}

InUrl(url, pattern) == Occurrences(url, pattern) # {}

(***************************************************************************)
(* Keys of the objects of the bucket: the segments of the file path.       *)
(* upload_to_storage writes user_id/gift_id/filename.                      *)
(***************************************************************************)
FilePath(user_id, gift_id, filename) == <<user_id, gift_id, filename>>

TempPaths == {FilePath("temp", TempIds[i], "model.glb") : i \in 1..MaxBlobs}

UserPath == FilePath("A", "G1", "model.glb")

(***************************************************************************)
(* get_public_url: the URL of the object with the given key.               *)
(***************************************************************************)
get_public_url(file_path) ==
    IF file_path = UserPath THEN UserUrl
    ELSE TempUrlOrder[CHOOSE i \in 1..Len(TempIds) : TempIds[i] = file_path[2]]

(***************************************************************************)
(* Timestamps.  created_at is the database's now() at the insert and       *)
(* claimed_at the server's datetime.utcnow() at the claim: two clocks,     *)
(* each modelled by the number of the write it stamps.  0 is a timestamp   *)
(* that is not set.                                                        *)
(***************************************************************************)
now == Cardinality(DOMAIN gifts) + 1

utcnow == BagCardinality(gift_openings) + 1

(***************************************************************************)
(* Python truthiness of an optional string: None and "" are falsy.         *)
(***************************************************************************)
Truthy(v) == v \notin {NULL, ""}

(***************************************************************************)
(* Sequence helpers.                                                       *)
(***************************************************************************)
RECURSIVE SeqsUpTo(_, _)
SeqsUpTo(S, n) ==
    IF n = 0 THEN {<<>>}
    ELSE LET shorter == SeqsUpTo(S, n - 1)
         IN  shorter \cup {Append(s, e) : s \in {t \in shorter : Len(t) = n - 1}, e \in S}

(***************************************************************************)
(* One entry of a gift's objects list.  url = NULL stands for a mapping    *)
(* without a "url" key (dict.get returns None).  placement tells whether   *)
(* the position / rotation / scale are the caller's or the defaults that   *)
(* wrap_gift writes for the entry it inserts.                              *)
(***************************************************************************)
GivenObject(u) == [url |-> u, placement |-> "given"]

DefaultObject(u) == [url |-> u, placement |-> "default"]

(***************************************************************************)
(* wrap_gift: model_url from the request, else the url of objects[0].      *)
(***************************************************************************)
WrapModelUrl(model_url, objects) ==
    IF ~Truthy(model_url) /\ objects # <<>>
    THEN objects[1].url
    ELSE model_url

(***************************************************************************)
(* wrap_gift: the objects list, with an entry for the model inserted at    *)
(* the front when no entry of the list has the model's url.                *)
(***************************************************************************)
WrapObjects(model_url, objects) ==
    LET url == WrapModelUrl(model_url, objects)
    IN  IF Truthy(url) /\ ~(\E i \in 1..Len(objects) : objects[i].url = url)
        THEN <<DefaultObject(url)>> \o objects
        ELSE objects

(* A generator that may hand out an identifier a row already has. *)
uuid4Reused == GiftIds

(***************************************************************************)
(* uuid.uuid4(): an identifier no row has yet.  Identifiers are opaque, so *)
(* they are handed out in order; the set is empty when none is left.       *)
(***************************************************************************)
uuid4 ==
    {GiftOrder[i] : i \in {j \in 1..MaxGifts :
                             /\ GiftOrder[j] \notin DOMAIN gifts
                             /\ \A k \in 1..(j - 1) : GiftOrder[k] \in DOMAIN gifts}}

(***************************************************************************)
(* wrap_gift: the row that is inserted, with the columns the database      *)
(* fills in (recipient_id, created_at, claimed_at).                        *)
(***************************************************************************)
GiftData(gift_id, user_id, name, prompt, model_url, objects) ==
    [id           |-> gift_id,
     creator_id   |-> user_id,
     recipient_id |-> NULL,
     name         |-> name,
     prompt       |-> prompt,
     model_url    |-> WrapModelUrl(model_url, objects),
     objects      |-> WrapObjects(model_url, objects),
     wrapped      |-> TRUE,
     status       |-> "in_pool",
     created_at   |-> now,
     claimed_at   |-> 0]

(***************************************************************************)
(* The exchange completed by the step just taken: the request (endpoint,   *)
(* gift_id, user_id) and its response (status code, body); NoResponse      *)
(* after a step that completes no request.  gift_id is NULL where the      *)
(* request has none.  body is <<>> for no gift and <<g>> for the gift g.           *)
(***************************************************************************)
Response(op, gift_id, user_id, code, body) ==
    [op |-> op, gift_id |-> gift_id, user_id |-> user_id, code |-> code, body |-> body]

NoResponse == Response("none", NULL, NULL, 0, <<>>)

(***************************************************************************)
(* The claim requests, numbered in the order of their arrival: not yet     *)
(* sent ("idle"), past the availability query of claim_gift and before its *)
(* update ("update"), or answered ("done").  A request in flight holds its *)
(* gift_id and user_id; the answer of a request is in resp.                *)
(***************************************************************************)
IdleClaim == [pc |-> "idle", gift_id |-> NULL, user_id |-> NULL]

DoneClaim == [pc |-> "done", gift_id |-> NULL, user_id |-> NULL]

(***************************************************************************)
(* The users a request may come from.  User ids are opaque and the code    *)
(* treats all alike, so users are named in the order in which they first   *)
(* appear in the state: a request comes from a user the state names, or    *)
(* from the first user it does not name.                                   *)
(***************************************************************************)
KnownUsers ==
    ( {gifts[g].creator_id : g \in DOMAIN gifts}
        \cup {gifts[g].recipient_id : g \in DOMAIN gifts}
        \cup {claims[r].user_id : r \in Reqs}
        \cup {e.opener_id : e \in BagToSet(gift_openings)}
        ) \ {NULL}

Callers ==
    KnownUsers \cup
        {UserOrder[i] : i \in {j \in 1..Len(UserOrder) :
                                 /\ UserOrder[j] \notin KnownUsers
                                 /\ \A k \in 1..(j - 1) : UserOrder[k] \in KnownUsers}}

Init ==
    /\ users = RegisteredUsers
    /\ gifts = <<>>
    /\ gift_openings = EmptyBag
    /\ storage = {}
    /\ rate_limit_store = [client_id \in Clients |-> EmptyBag]
    /\ clock = 0
    /\ claims = [r \in Reqs |-> IdleClaim]
    /\ resp = NoResponse

(***************************************************************************)
(* POST /api/gifts/wrap                                                    *)
(***************************************************************************)
Wrap(user_id, name, prompt, model_url, objects) ==
    /\ uuid4 # {}
    /\ IF ~validate_uuid(user_id)
       THEN /\ resp' = Response("wrap", NULL, user_id, 422, <<>>)
            /\ UNCHANGED <<gifts, rate_limit_store>>
       ELSE IF RateLimitExceeded
       THEN /\ resp' = Response("wrap", NULL, user_id, 429, <<>>)
            /\ gifts' = gifts
            /\ RateLimitRefuse
       ELSE \E gift_id \in uuid4 :
              LET gift == GiftData(gift_id, user_id, name, prompt, model_url, objects)
              IN  /\ RateLimitAdd
                  /\ gifts' = gifts @@ (gift_id :> gift)
                  /\ resp' = Response("wrap", NULL, user_id, 200, <<gift>>)
    /\ UNCHANGED <<clock, users, gift_openings, storage, claims>>

WrapGift ==
    \E user_id \in Callers, name \in Names, prompt \in Prompts :
        Wrap(user_id, name, prompt, UrlA, <<>>)

(***************************************************************************)
(* The request bodies of the wrap specification: model_url absent, empty   *)
(* or given; objects of up to MaxObjects entries, with or without a url.   *)
(***************************************************************************)
WrapModelUrls == {NULL, ""} \cup Urls

WrapObjectLists == SeqsUpTo({GivenObject(u) : u \in {NULL} \cup Urls}, MaxObjects)

WrapGiftAny ==
    /\ Cardinality(DOMAIN gifts) < MaxWrapped
    /\ \E user_id \in Callers, name \in Names, prompt \in Prompts,
          model_url \in WrapModelUrls, objects \in WrapObjectLists :
            Wrap(user_id, name, prompt, model_url, objects)

(* The pool query without its creator_id filter. *)
PoolCandidatesAnyCreator(user_id) ==
    {g \in DOMAIN gifts :
        /\ gifts[g].status = "in_pool"
        /\ gifts[g].recipient_id = NULL}

(* The pool query with only its creator_id filter. *)
PoolCandidatesAnyStatus(user_id) ==
    {g \in DOMAIN gifts : gifts[g].creator_id # user_id}

(***************************************************************************)
(* get_gift_from_pool: the rows of the pool query.                         *)
(***************************************************************************)
PoolCandidates(user_id) ==
    {g \in DOMAIN gifts :
        /\ gifts[g].status = "in_pool"
        /\ gifts[g].creator_id # user_id
        /\ gifts[g].recipient_id = NULL}

(***************************************************************************)
(* GET /api/gifts/pool                                                     *)
(***************************************************************************)
Draw(user_id) ==
    /\ IF ~validate_uuid(user_id)
       THEN resp' = Response("draw", NULL, user_id, 400, <<>>)
       ELSE IF PoolCandidates(user_id) = {}
       THEN resp' = Response("draw", NULL, user_id, 200, <<>>)
       ELSE \E g \in PoolCandidates(user_id) :
                resp' = Response("draw", NULL, user_id, 200, <<gifts[g]>>)
    /\ UNCHANGED <<clock, users, gifts, gift_openings, storage, rate_limit_store, claims>>

DrawGift == \E user_id \in Callers : Draw(user_id)

(* The availability query with only its id filter. *)
CheckResultById(gift_id) == {g \in DOMAIN gifts : g = gift_id}

(* The availability query with only its status and recipient filters. *)
CheckResultAnyId(gift_id) ==
    {g \in DOMAIN gifts :
        /\ gifts[g].status = "in_pool"
        /\ gifts[g].recipient_id = NULL}

(***************************************************************************)
(* claim_gift: the rows of the availability query.                         *)
(***************************************************************************)
CheckResult(gift_id) ==
    {g \in DOMAIN gifts :
        /\ g = gift_id
        /\ gifts[g].status = "in_pool"
        /\ gifts[g].recipient_id = NULL}

(* No guard against claiming one's own gift. *)
OwnGiftAllowed(gift, user_id) == FALSE

(***************************************************************************)
(* claim_gift: the guard against claiming one's own gift.                  *)
(***************************************************************************)
OwnGift(gift, user_id) == gift.creator_id = user_id

(* An update that leaves status alone. *)
ClaimedRowKeepsStatus(gift, user_id) == [gift EXCEPT !.recipient_id = user_id]

(* An update without its id filter. *)
ClaimMatchAll(gift_id) == DOMAIN gifts

(***************************************************************************)
(* claim_gift: the rows the update matches, and the row it writes.         *)
(***************************************************************************)
ClaimMatch(gift_id) == {g \in DOMAIN gifts : g = gift_id}

ClaimedRow(gift, user_id) ==
    [gift EXCEPT !.recipient_id = user_id, !.status = "claimed", !.claimed_at = utcnow]

(***************************************************************************)
(* claim_gift: the response, with wrapped forced to false.                 *)
(***************************************************************************)
ClaimResponse(gift) == [gift EXCEPT !.wrapped = FALSE]

(***************************************************************************)
(* POST /api/gifts/claim: request r arrives, the body is validated, the    *)
(* limiter runs and claim_gift runs its availability query, with the two   *)
(* early returns.                                                          *)
(***************************************************************************)
ClaimCheck(r, gift_id, user_id) ==
    /\ claims[r].pc = "idle"
    /\ \A q \in Reqs : q < r => claims[q].pc # "idle"
    /\ IF ~validate_uuid(user_id) \/ ~validate_uuid(gift_id)
       THEN /\ resp' = Response("claim", gift_id, user_id, 422, <<>>)
            /\ claims' = [claims EXCEPT ![r] = DoneClaim]
            /\ UNCHANGED rate_limit_store
       ELSE IF RateLimitExceeded
       THEN /\ resp' = Response("claim", gift_id, user_id, 429, <<>>)
            /\ claims' = [claims EXCEPT ![r] = DoneClaim]
            /\ RateLimitRefuse
       ELSE IF CheckResult(gift_id) = {}
       THEN /\ resp' = Response("claim", gift_id, user_id, 409, <<>>)
            /\ claims' = [claims EXCEPT ![r] = DoneClaim]
            /\ RateLimitAdd
       ELSE IF OwnGift(gifts[CHOOSE g \in CheckResult(gift_id) : TRUE], user_id)
       THEN /\ resp' = Response("claim", gift_id, user_id, 400, <<>>)
            /\ claims' = [claims EXCEPT ![r] = DoneClaim]
            /\ RateLimitAdd
       ELSE /\ resp' = NoResponse
            /\ claims' = [claims EXCEPT ![r] =
                            [pc |-> "update", gift_id |-> gift_id, user_id |-> user_id]]
            /\ RateLimitAdd
    /\ UNCHANGED <<clock, users, gifts, gift_openings, storage>>

(***************************************************************************)
(* claim_gift: the update of the row with the request's gift_id, then the  *)
(* insert into gift_openings and the response.  No handler reads           *)
(* gift_openings and nothing happens between the two calls, so they are    *)
(* one step.                                                               *)
(***************************************************************************)
Opening(gift_id, opener_id) == [gift_id |-> gift_id, opener_id |-> opener_id]

ClaimUpdate(r) ==
    /\ claims[r].pc = "update"
    /\ LET c == claims[r]
       IN  IF ClaimMatch(c.gift_id) = {}
           THEN /\ resp' = Response("claim", c.gift_id, c.user_id, 500, <<>>)
                /\ gifts' = gifts
                /\ gift_openings' = gift_openings
           ELSE LET gift == ClaimedRow(gifts[c.gift_id], c.user_id)
                IN  /\ resp' = Response("claim", c.gift_id, c.user_id, 200,
                                        <<ClaimResponse(gift)>>)
                    /\ gifts' = [g \in DOMAIN gifts |->
                                    IF g \in ClaimMatch(c.gift_id)
                                    THEN ClaimedRow(gifts[g], c.user_id)
                                    ELSE gifts[g]]
                    /\ gift_openings' =
                          gift_openings (+) SetToBag({Opening(c.gift_id, c.user_id)})
    /\ claims' = [claims EXCEPT ![r] = DoneClaim]
    /\ UNCHANGED <<clock, users, storage, rate_limit_store>>

(* The update with only its id filter. *)
OpenMatchById(gift_id, user_id) == {g \in DOMAIN gifts : g = gift_id}

(* The update restricted to the rows that are still wrapped. *)
OpenMatchWrapped(gift_id, user_id) ==
    {g \in DOMAIN gifts : g = gift_id /\ gifts[g].recipient_id = user_id /\ gifts[g].wrapped}

(* An update that also clears the model of the gift. *)
OpenedRowNoModel(gift) ==
    [gift EXCEPT !.wrapped = FALSE, !.status = "opened", !.model_url = NULL]

(* An update that writes the status of a gift in the pool. *)
OpenedRowInPool(gift) == [gift EXCEPT !.wrapped = FALSE, !.status = "in_pool"]

(***************************************************************************)
(* open_gift: the rows the update matches, and the row it writes.          *)
(***************************************************************************)
OpenMatch(gift_id, user_id) ==
    {g \in DOMAIN gifts : g = gift_id /\ gifts[g].recipient_id = user_id}

OpenedRow(gift) == [gift EXCEPT !.wrapped = FALSE, !.status = "opened"]

(***************************************************************************)
(* POST /api/gifts/{gift_id}/open                                          *)
(***************************************************************************)
Open(gift_id, user_id) ==
    /\ IF ~validate_uuid(gift_id) \/ ~validate_uuid(user_id)
       THEN /\ gifts' = gifts
            /\ resp' = Response("open", gift_id, user_id, 400, <<>>)
       ELSE IF OpenMatch(gift_id, user_id) = {}
       THEN /\ gifts' = gifts
            /\ resp' = Response("open", gift_id, user_id, 404, <<>>)
       ELSE LET gift == OpenedRow(gifts[gift_id])
            IN  /\ gifts' = [g \in DOMAIN gifts |->
                                IF g \in OpenMatch(gift_id, user_id)
                                THEN OpenedRow(gifts[g])
                                ELSE gifts[g]]
                /\ resp' = Response("open", gift_id, user_id, 200, <<gift>>)
    /\ UNCHANGED <<clock, users, gift_openings, storage, rate_limit_store, claims>>

OpenGift == \E gift_id \in GiftIds, user_id \in Callers : Open(gift_id, user_id)

ClaimGiftCheck ==
    \E r \in Reqs, gift_id \in GiftIds, user_id \in Callers : ClaimCheck(r, gift_id, user_id)

ClaimGiftUpdate == \E r \in Reqs : ClaimUpdate(r)

(* The rows in ascending order of the column. *)
OrderAsc(rows, rank) ==
    LET n == Cardinality(rows)
        order == CHOOSE p \in [1..n -> rows] :
                    \A i, j \in 1..n :
                        i < j => (p[i] # p[j] /\ rank[p[i]] <= rank[p[j]])
    IN  [i \in 1..n |-> gifts[order[i]]]

(***************************************************************************)
(* The rows in the order of .order(column, desc=True): rank(g) is the      *)
(* column's value in row g.  Rows of equal rank come in either order.      *)
(***************************************************************************)
OrderDesc(rows, rank) ==
    LET n == Cardinality(rows)
        order == CHOOSE p \in [1..n -> rows] :
                    \A i, j \in 1..n :
                        i < j => (p[i] # p[j] /\ rank[p[i]] >= rank[p[j]])
    IN  [i \in 1..n |-> gifts[order[i]]]

(***************************************************************************)
(* get_created_gifts: the rows of the query.                               *)
(***************************************************************************)
CreatedRows(user_id) == {g \in DOMAIN gifts : gifts[g].creator_id = user_id}

(***************************************************************************)
(* GET /api/gifts/created/{user_id}                                        *)
(***************************************************************************)
ListCreated(user_id) ==
    /\ IF ~validate_uuid(user_id)
       THEN resp' = Response("list_created", NULL, user_id, 400, <<>>)
       ELSE resp' = Response("list_created", NULL, user_id, 200,
                             OrderDesc(CreatedRows(user_id),
                                       [g \in DOMAIN gifts |-> gifts[g].created_at]))
    /\ UNCHANGED <<clock, users, gifts, gift_openings, storage, rate_limit_store, claims>>

(***************************************************************************)
(* get_received_gifts: the rows of the query.                              *)
(***************************************************************************)
ReceivedRows(user_id) == {g \in DOMAIN gifts : gifts[g].recipient_id = user_id}

(***************************************************************************)
(* GET /api/gifts/received/{user_id}                                       *)
(***************************************************************************)
ListReceived(user_id) ==
    /\ IF ~validate_uuid(user_id)
       THEN resp' = Response("list_received", NULL, user_id, 400, <<>>)
       ELSE resp' = Response("list_received", NULL, user_id, 200,
                             OrderDesc(ReceivedRows(user_id),
                                       [g \in DOMAIN gifts |-> gifts[g].claimed_at]))
    /\ UNCHANGED <<clock, users, gifts, gift_openings, storage, rate_limit_store, claims>>

(***************************************************************************)
(* GET /api/gifts/{gift_id}                                                *)
(***************************************************************************)
GetRows(gift_id) == {g \in DOMAIN gifts : g = gift_id}

Get(gift_id) ==
    /\ IF ~validate_uuid(gift_id)
       THEN resp' = Response("get", gift_id, NULL, 400, <<>>)
       ELSE IF GetRows(gift_id) = {}
       THEN resp' = Response("get", gift_id, NULL, 404, <<>>)
       ELSE resp' = Response("get", gift_id, NULL, 200, <<gifts[gift_id]>>)
    /\ UNCHANGED <<clock, users, gifts, gift_openings, storage, rate_limit_store, claims>>

(***************************************************************************)
(* The URLs a gift refers to.                                              *)
(***************************************************************************)
GiftUrls(gift) ==
    ({gift.model_url} \cup {gift.objects[i].url : i \in 1..Len(gift.objects)})
        \ {NULL, ""}

(***************************************************************************)
(* generate_3d_model: uuid.uuid4() for the folder of the upload.  The ids  *)
(* are opaque and are handed out in order; the id of an object that is     *)
(* deleted and that no gift refers to is handed out again.                 *)
(***************************************************************************)
InUse(i) ==
    \/ FilePath("temp", TempIds[i], "model.glb") \in storage
    \/ \E g \in DOMAIN gifts : TempUrlOrder[i] \in GiftUrls(gifts[g])

temp_id ==
    {TempIds[i] : i \in {j \in 1..MaxBlobs :
                           /\ ~InUse(j)
                           /\ \A k \in 1..(j - 1) : InUse(k)}}

(***************************************************************************)
(* POST /api/generate: the limiter, the call of the inference service and  *)
(* the upload of the model into the temp folder; or no upload (demo mode,  *)
(* a failure of the service or of the upload).                             *)
(***************************************************************************)
Generate ==
    /\ temp_id # {}
    /\ IF RateLimitExceeded
       THEN /\ resp' = Response("generate", NULL, NULL, 429, <<>>)
            /\ storage' = storage
            /\ RateLimitRefuse
       ELSE /\ RateLimitAdd
            /\ \/ \E id \in temp_id :
                    LET file_path == FilePath("temp", id, "model.glb")
                    IN  /\ storage' = storage \cup {file_path}
                        /\ resp' = Response("generate", NULL, NULL, 200,
                                            <<get_public_url(file_path)>>)
               \/ /\ storage' = storage
                  /\ resp' = Response("generate", NULL, NULL, 200, <<>>)
    /\ UNCHANGED <<clock, users, gifts, gift_openings, claims>>

(***************************************************************************)
(* cleanup_model: the safety check, "/temp/" in request.url.               *)
(***************************************************************************)
IsTempUrl(url) == InUrl(url, <<"temp">>)

(***************************************************************************)
(* delete_from_storage: the keys that are removed, and whether True is     *)
(* returned.  The file path is what follows the bucket in the URL.         *)
(***************************************************************************)
BucketPrefix == <<"storage", "v1", "object", "public", "gifts">>

Deletable(url) ==
    /\ Truthy(url)
    /\ InUrl(url, <<"storage", "v1", "object", "public">>)
    /\ Cardinality(Occurrences(url, BucketPrefix)) = 1

DeletedPath(url) ==
    LET parts == SplitSlash(url)
        i == CHOOSE j \in Occurrences(url, BucketPrefix) : TRUE
    IN  SubSeq(parts, i + Len(BucketPrefix), Len(parts))

(***************************************************************************)
(* POST /api/cleanup                                                       *)
(***************************************************************************)
Cleanup(url) ==
    /\ IF RateLimitExceeded
       THEN /\ resp' = Response("cleanup", NULL, NULL, 429, <<>>)
            /\ storage' = storage
            /\ RateLimitRefuse
       ELSE /\ RateLimitAdd
            /\ IF ~IsTempUrl(url)
               THEN /\ storage' = storage
                    /\ resp' = Response("cleanup", NULL, NULL, 200, <<FALSE>>)
               ELSE IF Deletable(url)
               THEN /\ storage' = storage \ {DeletedPath(url)}
                    /\ resp' = Response("cleanup", NULL, NULL, 200, <<TRUE>>)
               ELSE /\ storage' = storage
                    /\ resp' = Response("cleanup", NULL, NULL, 200, <<FALSE>>)
    /\ UNCHANGED <<clock, users, gifts, gift_openings, claims>>

CleanupModel == \E url \in CleanupUrls : Cleanup(url)

(***************************************************************************)
(* sanitize_string: control characters removed, then strip().              *)
(***************************************************************************)
sanitize_string(value) ==
    IF \E i \in DOMAIN PaddedEmails : PaddedEmails[i] = value
    THEN LowerEmails[CHOOSE i \in DOMAIN PaddedEmails : PaddedEmails[i] = value]
    ELSE value

(***************************************************************************)
(* validate_email: the match of the pattern.                               *)
(***************************************************************************)
validate_email(value) ==
    \/ \E i \in DOMAIN LowerEmails : LowerEmails[i] = value
    \/ \E i \in DOMAIN UpperEmails : UpperEmails[i] = value

(* An email left in the case of the request. *)
lower_kept(value) == value

(***************************************************************************)
(* str.lower()                                                             *)
(***************************************************************************)
lower(value) ==
    IF \E i \in DOMAIN UpperEmails : UpperEmails[i] = value
    THEN LowerEmails[CHOOSE i \in DOMAIN UpperEmails : UpperEmails[i] = value]
    ELSE value

(***************************************************************************)
(* create_or_get_user: the rows of the query by email, and the id that the *)
(* database gives to the row that is inserted.                             *)
(***************************************************************************)
UserRows(email) == {u \in DOMAIN users : users[u].email = email}

new_user_id ==
    UserIdOrder[CHOOSE i \in DOMAIN UserIdOrder :
                    /\ UserIdOrder[i] \notin DOMAIN users
                    /\ \A k \in 1..(i - 1) : UserIdOrder[k] \in DOMAIN users]

(***************************************************************************)
(* POST /api/users: the validation of the body (UserCreate), the limiter,  *)
(* the query and the insert.  The exchange holds the email of the request  *)
(* in user_id.                                                             *)
(***************************************************************************)
CreateOrGetUser(email) ==
    /\ LET v == sanitize_string(email)
       IN  IF ~validate_email(v)
           THEN /\ resp' = Response("create_or_get_user", NULL, email, 422, <<>>)
                /\ UNCHANGED <<users, rate_limit_store>>
           ELSE IF RateLimitExceeded
           THEN /\ resp' = Response("create_or_get_user", NULL, email, 429, <<>>)
                /\ users' = users
                /\ RateLimitRefuse
           ELSE /\ RateLimitAdd
                /\ IF UserRows(lower(v)) # {}
                   THEN /\ \E u \in UserRows(lower(v)) :
                             resp' = Response("create_or_get_user", NULL, email, 200,
                                              <<users[u]>>)
                        /\ users' = users
                   ELSE LET new_user == [id |-> new_user_id, email |-> lower(v)]
                        IN  /\ users' = users @@ (new_user.id :> new_user)
                            /\ resp' = Response("create_or_get_user", NULL, email, 200,
                                                <<new_user>>)
    /\ UNCHANGED <<clock, gifts, gift_openings, storage, claims>>

CreateOrGetUserAny == \E email \in EmailInputs : CreateOrGetUser(email)

(***************************************************************************)
(* The lifecycle: wrap, draw, claim and open by any user on any gift.      *)
(***************************************************************************)
Next ==
    \/ WrapGift
    \/ DrawGift
    \/ ClaimGiftCheck
    \/ ClaimGiftUpdate
    \/ OpenGift

Spec == Init /\ [][Next]_vars

(***************************************************************************)
(* Wrapping alone, over every shape of request body.                       *)
(***************************************************************************)
NextWrap == WrapGiftAny

SpecWrap == Init /\ [][NextWrap]_vars

(***************************************************************************)
(* One client at a time: a request arrives when no claim is between its    *)
(* query and its update.  The identifiers of the requests may be           *)
(* malformed.                                                              *)
(***************************************************************************)
Quiet == \A r \in Reqs : claims[r].pc # "update"

UserIds == Callers \cup MalformedIds

AnyGiftIds == GiftIds \cup MalformedIds

SeqWrap ==
    /\ Quiet
    /\ \E user_id \in UserIds, name \in Names, prompt \in Prompts :
          Wrap(user_id, name, prompt, UrlA, <<>>)

SeqDraw == Quiet /\ \E user_id \in UserIds : Draw(user_id)

SeqClaim ==
    /\ Quiet
    /\ \E r \in Reqs, gift_id \in AnyGiftIds, user_id \in UserIds :
          ClaimCheck(r, gift_id, user_id)

SeqOpen == Quiet /\ \E gift_id \in AnyGiftIds, user_id \in UserIds : Open(gift_id, user_id)

SeqGet == Quiet /\ \E gift_id \in AnyGiftIds : Get(gift_id)

SeqListCreated == Quiet /\ \E user_id \in UserIds : ListCreated(user_id)

SeqListReceived == Quiet /\ \E user_id \in UserIds : ListReceived(user_id)

NextSeq ==
    \/ SeqWrap
    \/ SeqDraw
    \/ SeqClaim
    \/ ClaimGiftUpdate
    \/ SeqOpen
    \/ SeqGet
    \/ SeqListCreated
    \/ SeqListReceived

SpecSeq == Init /\ [][NextSeq]_vars

(***************************************************************************)
(* The storage: generate, wrap with the URL of a model, and cleanup.  The  *)
(* bucket is empty or holds an object in a user's folder.                  *)
(***************************************************************************)
InitStore ==
    /\ users = RegisteredUsers
    /\ gifts = <<>>
    /\ gift_openings = EmptyBag
    /\ storage \in {{}, {UserPath}}
    /\ rate_limit_store = [client_id \in Clients |-> EmptyBag]
    /\ clock = 0
    /\ claims = [r \in Reqs |-> IdleClaim]
    /\ resp = NoResponse

StoreWrap ==
    \E user_id \in Callers, name \in Names, prompt \in Prompts, model_url \in CleanupUrls :
        Wrap(user_id, name, prompt, model_url, <<>>)

NextStore ==
    \/ Generate
    \/ StoreWrap
    \/ CleanupModel

SpecStore == InitStore /\ [][NextStore]_vars

(***************************************************************************)
(* Every operation of the lifecycle, one request at a time: wrap, draw,    *)
(* claim, open, get, the two lists and cleanup.  The bucket holds a model  *)
(* that generate has uploaded, and cleanup is called with the URL of a     *)
(* model that the bucket holds.                                            *)
(***************************************************************************)
InitLife ==
    /\ users = RegisteredUsers
    /\ gifts = <<>>
    /\ gift_openings = EmptyBag
    /\ storage = {FilePath("temp", TempIds[1], "model.glb")}
    /\ rate_limit_store = [client_id \in Clients |-> EmptyBag]
    /\ clock = 0
    /\ claims = [r \in Reqs |-> IdleClaim]
    /\ resp = NoResponse

LifeWrap == Quiet /\ WrapGift

LifeDraw == Quiet /\ DrawGift

LifeClaim == Quiet /\ ClaimGiftCheck

LifeOpen == Quiet /\ OpenGift

LifeGet == Quiet /\ \E gift_id \in GiftIds : Get(gift_id)

LifeListCreated == Quiet /\ \E user_id \in Callers : ListCreated(user_id)

LifeListReceived == Quiet /\ \E user_id \in Callers : ListReceived(user_id)

LifeCleanup == Quiet /\ \E file_path \in storage : Cleanup(get_public_url(file_path))

NextLife ==
    \/ LifeWrap
    \/ LifeDraw
    \/ LifeClaim
    \/ ClaimGiftUpdate
    \/ LifeOpen
    \/ LifeGet
    \/ LifeListCreated
    \/ LifeListReceived
    \/ LifeCleanup

SpecLife == InitLife /\ [][NextLife]_vars

(***************************************************************************)
(* The lifecycle with its reads: get and list_received by any user, at any *)
(* moment between the steps of the claims.                                 *)
(***************************************************************************)
GetGift == \E gift_id \in GiftIds : Get(gift_id)

ListReceivedGifts == \E user_id \in Callers : ListReceived(user_id)

NextRead ==
    \/ WrapGift
    \/ ClaimGiftCheck
    \/ ClaimGiftUpdate
    \/ OpenGift
    \/ GetGift
    \/ ListReceivedGifts

SpecRead == Init /\ [][NextRead]_vars

(***************************************************************************)
(* The users: calls of create_or_get_user, one at a time.                  *)
(***************************************************************************)
NextUsers == CreateOrGetUserAny

SpecUsers == Init /\ [][NextUsers]_vars

(***************************************************************************)
(* The limiter: requests of the clients pass through                       *)
(* rate_limit_middleware while time passes, by half a window or a whole    *)
(* one at a time, up to MaxTicks half windows.  At the start a client has  *)
(* made no request, or all but one of the requests of its limit half a     *)
(* window ago, or all of them just now; then it is let through at most     *)
(* MaxCalls times at any one time.                                         *)
(***************************************************************************)
HalfWindow == RATE_LIMIT_WINDOW \div 2

InitialLists ==
    { EmptyBag,
      (0 - HalfWindow) :> (RATE_LIMIT_REQUESTS - 1),
      0 :> RATE_LIMIT_REQUESTS }

InitLimit ==
    /\ users = RegisteredUsers
    /\ gifts = <<>>
    /\ gift_openings = EmptyBag
    /\ storage = {}
    /\ rate_limit_store \in [Clients -> InitialLists]
    /\ clock = 0
    /\ claims = [r \in Reqs |-> IdleClaim]
    /\ resp = NoResponse

(***************************************************************************)
(* datetime.utcnow() moves on.                                             *)
(***************************************************************************)
Tick(seconds) ==
    /\ clock + seconds <= MaxTicks * HalfWindow
    /\ clock' = clock + seconds
    /\ UNCHANGED <<users, gifts, gift_openings, storage, rate_limit_store, claims, resp>>

TimePasses == \E seconds \in {HalfWindow, RATE_LIMIT_WINDOW} : Tick(seconds)

(***************************************************************************)
(* rate_limit_middleware: 429 when check_rate_limit returns False.  The    *)
(* exchange holds the client in user_id and the time of the request in its *)
(* body.                                                                   *)
(***************************************************************************)
rate_limit_middleware(client_id) ==
    /\ \/ CopiesIn(clock, rate_limit_store[client_id]) < MaxCalls
       \/ ~check_rate_limit(client_id)
    /\ resp' = Response("check_rate_limit", NULL, client_id,
                        IF check_rate_limit(client_id) THEN 200 ELSE 429, <<clock>>)
    /\ rate_limit_store' = RateLimitStore(client_id)
    /\ UNCHANGED <<users, gifts, gift_openings, storage, clock, claims>>

RateLimitedRequest == \E client_id \in Clients : rate_limit_middleware(client_id)

NextLimit ==
    \/ TimePasses
    \/ RateLimitedRequest

SpecLimit == InitLimit /\ [][NextLimit]_vars

(***************************************************************************)
(* Vocabulary of the properties.                                           *)
(***************************************************************************)
InPool(g) ==
    /\ g \in DOMAIN gifts
    /\ gifts[g].status = "in_pool"
    /\ gifts[g].recipient_id = NULL

(* The users whose claim of gift g returned success, as the opening events *)
(* record them.                                                            *)
Winners(g) == {e.opener_id : e \in {o \in BagToSet(gift_openings) : o.gift_id = g}}

(* The step being taken is the arrival of claim request r, and the gift    *)
(* and the user it names.                                                  *)
Arrives(r) == claims[r].pc = "idle" /\ claims'[r].pc # "idle"

ArrivingGift(r) ==
    IF claims'[r].pc = "update" THEN claims'[r].gift_id ELSE resp'.gift_id

ArrivingUser(r) ==
    IF claims'[r].pc = "update" THEN claims'[r].user_id ELSE resp'.user_id

(***************************************************************************)
(* C1: of the claims made on one gift by different users, at most one      *)
(* returns success: no gift has two users whose claim returned 200.        *)
(***************************************************************************)
C1_OneClaimWins ==
    \A g \in DOMAIN gifts : Cardinality(Winners(g)) <= 1

(***************************************************************************)
(* C2: once a gift's recipient_id is set, no step changes or clears it.    *)
(***************************************************************************)
C2_RecipientImmutable ==
    [][\A g \in DOMAIN gifts :
          gifts[g].recipient_id # NULL
              => gifts'[g].recipient_id = gifts[g].recipient_id]_vars

(***************************************************************************)
(* C3: every change of a gift's status is in_pool -> claimed or            *)
(* claimed -> opened; in particular opened never changes.                  *)
(***************************************************************************)
C3_StatusProgression ==
    [][\A g \in DOMAIN gifts :
          gifts'[g].status # gifts[g].status
              => \/ gifts[g].status = "in_pool" /\ gifts'[g].status = "claimed"
                 \/ gifts[g].status = "claimed" /\ gifts'[g].status = "opened"]_vars

(***************************************************************************)
(* C4: in every state and for every gift, recipient_id is null if and only *)
(* if status is in_pool.                                                   *)
(***************************************************************************)
C4_RecipientIffNotInPool ==
    \A g \in DOMAIN gifts :
        (gifts[g].recipient_id = NULL) <=> (gifts[g].status = "in_pool")

(* A gift written by a claim after it had been opened. *)
C4_Witness ==
    \E g \in DOMAIN gifts :
        /\ gifts[g].status = "claimed"
        /\ gifts[g].wrapped = FALSE
        /\ gifts[g].recipient_id # NULL

(***************************************************************************)
(* C5: in every state, no gift's recipient_id equals its creator_id.       *)
(***************************************************************************)
C5_NeverOwnRecipient ==
    \A g \in DOMAIN gifts : gifts[g].recipient_id # gifts[g].creator_id

(* The creator's claim has just been refused while another user's claim of *)
(* the same gift is between its query and its update.                      *)
C5_Witness ==
    /\ resp.op = "claim"
    /\ resp.code = 400
    /\ resp.gift_id \in DOMAIN gifts
    /\ resp.user_id = gifts[resp.gift_id].creator_id
    /\ \E r \in Reqs :
          /\ claims[r].pc = "update"
          /\ claims[r].gift_id = resp.gift_id
          /\ claims[r].user_id # resp.user_id

(***************************************************************************)
(* C6 as stated: a claim by the gift's creator returns 400 whatever the    *)
(* gift's state, in_pool, claimed or opened, and changes neither the gifts *)
(* nor the opening events.                                                 *)
(***************************************************************************)
C6_SelfClaimAlways400 ==
    [][\A r \in Reqs :
          ( /\ Arrives(r)
            /\ ArrivingGift(r) \in DOMAIN gifts
            /\ gifts[ArrivingGift(r)].creator_id = ArrivingUser(r) )
          => /\ claims'[r].pc = "done"
             /\ resp'.op = "claim"
             /\ resp'.code = 400
             /\ gifts' = gifts
             /\ gift_openings' = gift_openings]_vars

(***************************************************************************)
(* C6 amended: a claim by the gift's creator always fails and changes      *)
(* neither the gifts nor the opening events; it returns 400 when the gift  *)
(* is in the pool and 409 when the gift is claimed or opened.              *)
(***************************************************************************)
C6_SelfClaimFails ==
    [][\A r \in Reqs :
          ( /\ Arrives(r)
            /\ ArrivingGift(r) \in DOMAIN gifts
            /\ gifts[ArrivingGift(r)].creator_id = ArrivingUser(r) )
          => /\ claims'[r].pc = "done"
             /\ resp'.op = "claim"
             /\ resp'.code = IF InPool(ArrivingGift(r)) THEN 400 ELSE 409
             /\ gifts' = gifts
             /\ gift_openings' = gift_openings]_vars

(* The creator's claim of their own gift, made after someone had claimed   *)
(* it, has just returned 409.                                              *)
C6_Witness ==
    /\ resp.op = "claim"
    /\ resp.code = 409
    /\ resp.gift_id \in DOMAIN gifts
    /\ resp.user_id = gifts[resp.gift_id].creator_id
    /\ gifts[resp.gift_id].status # "in_pool"

(***************************************************************************)
(* C7: a claim whose availability query runs when the gift does not exist, *)
(* or is not in_pool, or has a recipient, returns 409 and ends there: the  *)
(* gifts and the opening events are unchanged.                             *)
(***************************************************************************)
C7_UnavailableIsConflict ==
    [][\A r \in Reqs :
          (Arrives(r) /\ ~InPool(ArrivingGift(r)))
              => /\ claims'[r].pc = "done"
                 /\ resp'.op = "claim"
                 /\ resp'.code = 409
                 /\ gifts' = gifts
                 /\ gift_openings' = gift_openings]_vars

(* A claim of a gift that someone else had already received has just got   *)
(* 409.                                                                    *)
C7_Witness ==
    /\ resp.op = "claim"
    /\ resp.code = 409
    /\ resp.gift_id \in DOMAIN gifts
    /\ gifts[resp.gift_id].status # "in_pool"
    /\ gifts[resp.gift_id].recipient_id # resp.user_id
    /\ gifts[resp.gift_id].creator_id # resp.user_id

(***************************************************************************)
(* C8: a wrap adds exactly one gift, under an id no gift had, in_pool,     *)
(* wrapped, without recipient and created by the caller, and changes no    *)
(* gift that existed.                                                      *)
(***************************************************************************)
C8_WrapAddsOneGift ==
    [][(resp'.op = "wrap" /\ resp'.code = 200)
          => \E id \in GiftIds \ DOMAIN gifts :
                /\ DOMAIN gifts' = DOMAIN gifts \cup {id}
                /\ gifts'[id].id = id
                /\ gifts'[id].status = "in_pool"
                /\ gifts'[id].wrapped = TRUE
                /\ gifts'[id].recipient_id = NULL
                /\ gifts'[id].creator_id = resp'.user_id
                /\ \A g \in DOMAIN gifts : gifts'[g] = gifts[g]]_vars

(* A second gift has just been wrapped next to one that is already         *)
(* claimed or opened.                                                      *)
C8_Witness ==
    /\ resp.op = "wrap"
    /\ Cardinality(DOMAIN gifts) = 2
    /\ \E g \in DOMAIN gifts : gifts[g].status # "in_pool"
    /\ resp.body[1].status = "in_pool"

(***************************************************************************)
(* C9: for every gift wrapped with a model (model_url given, or taken from *)
(* objects), the objects list is not empty, its first entry's url is the   *)
(* gift's model_url, and that url occurs once in the list.                 *)
(***************************************************************************)
C9_ModelFirstAndOnce ==
    \A g \in DOMAIN gifts :
        Truthy(gifts[g].model_url)
            => /\ gifts[g].objects # <<>>
               /\ gifts[g].objects[1].url = gifts[g].model_url
               /\ Cardinality({i \in 1..Len(gifts[g].objects) :
                                  gifts[g].objects[i].url = gifts[g].model_url}) = 1

(***************************************************************************)
(* C10: draw(u) returns no gift exactly when no gift is in_pool, without   *)
(* recipient and created by someone other than u; otherwise it returns     *)
(* such a gift, as it is stored.                                           *)
(***************************************************************************)
C10_DrawFromCandidates ==
    [][resp'.op = "draw"
          => LET cand == {g \in DOMAIN gifts :
                            /\ gifts[g].status = "in_pool"
                            /\ gifts[g].creator_id # resp'.user_id
                            /\ gifts[g].recipient_id = NULL}
             IN  /\ resp'.code = 200
                 /\ gifts' = gifts
                 /\ (resp'.body = <<>>) <=> (cand = {})
                 /\ resp'.body # <<>>
                      => /\ resp'.body[1].id \in cand
                         /\ resp'.body[1] = gifts[resp'.body[1].id]]_vars

(* A draw has just returned a gift while another gift was already claimed  *)
(* or opened.                                                              *)
C10_Witness ==
    /\ resp.op = "draw"
    /\ resp.body # <<>>
    /\ \E g \in DOMAIN gifts : gifts[g].status # "in_pool"

(***************************************************************************)
(* C11: a draw changes no gift, no opening event and no stored object, and *)
(* the gift it returns is still in the pool afterwards, where a draw by    *)
(* another user can return it and a claim by another user finds it.        *)
(***************************************************************************)
C11_DrawChangesNothing ==
    [][resp'.op = "draw"
          => /\ gifts' = gifts
             /\ gift_openings' = gift_openings
             /\ storage' = storage
             /\ resp'.body # <<>>
                  => /\ gifts'[resp'.body[1].id].status = "in_pool"
                     /\ gifts'[resp'.body[1].id].recipient_id = NULL]_vars

(* A draw has just returned a gift that another user's claim, already past *)
(* its availability query, is about to take.                               *)
C11_Witness ==
    /\ resp.op = "draw"
    /\ resp.body # <<>>
    /\ \E r \in Reqs :
          /\ claims[r].pc = "update"
          /\ claims[r].gift_id = resp.body[1].id
          /\ claims[r].user_id # resp.user_id

(***************************************************************************)
(* C12: an open by the gift's recipient succeeds and leaves the gift as it *)
(* was except wrapped = false and status = opened; repeated at once, it    *)
(* succeeds again with the same response and leaves the gifts unchanged.   *)
(***************************************************************************)
C12_OpenIdempotent ==
    [][\A g \in DOMAIN gifts :
          ( /\ resp'.op = "open"
            /\ resp'.gift_id = g
            /\ resp'.user_id = gifts[g].recipient_id )
          => /\ resp'.code = 200
             /\ gifts' = [gifts EXCEPT ![g] =
                            [gifts[g] EXCEPT !.wrapped = FALSE, !.status = "opened"]]
             /\ resp'.body = <<gifts'[g]>>
             /\ (resp.op = "open" /\ resp.gift_id = g /\ resp.user_id = resp'.user_id
                    /\ resp.code = 200)
                  => (gifts' = gifts /\ resp' = resp)]_vars

(* The recipient's open has just succeeded (a repeated open leads to this  *)
(* same state).                                                            *)
C12_Witness ==
    /\ resp.op = "open"
    /\ resp.code = 200
    /\ resp.gift_id \in DOMAIN gifts
    /\ gifts[resp.gift_id].recipient_id = resp.user_id
    /\ gifts[resp.gift_id].status = "opened"
    /\ gifts[resp.gift_id].wrapped = FALSE
    /\ resp.body = <<gifts[resp.gift_id]>>

(***************************************************************************)
(* C13: an open by a user who is not the gift's recipient (the gift still  *)
(* in the pool, the creator, a gift that does not exist) returns 404 and   *)
(* changes nothing.                                                        *)
(***************************************************************************)
C13_OpenByOtherFails ==
    [][( /\ resp'.op = "open"
         /\ \/ resp'.gift_id \notin DOMAIN gifts
            \/ gifts[resp'.gift_id].recipient_id # resp'.user_id )
          => /\ resp'.code = 404
             /\ gifts' = gifts
             /\ gift_openings' = gift_openings]_vars

(* The creator's open of a gift that another user has claimed has just     *)
(* been refused.                                                           *)
C13_Witness ==
    /\ resp.op = "open"
    /\ resp.code = 404
    /\ resp.gift_id \in DOMAIN gifts
    /\ gifts[resp.gift_id].creator_id = resp.user_id
    /\ gifts[resp.gift_id].status = "claimed"

(***************************************************************************)
(* C14: in every state, a gift with wrapped = false is not in_pool.        *)
(***************************************************************************)
C14_UnwrappedNotInPool ==
    \A g \in DOMAIN gifts : gifts[g].wrapped = FALSE => gifts[g].status # "in_pool"

(* A gift has been opened while another is still in the pool.              *)
C14_Witness ==
    /\ \E g \in DOMAIN gifts : gifts[g].wrapped = FALSE /\ gifts[g].status = "opened"
    /\ \E g \in DOMAIN gifts : gifts[g].wrapped = TRUE /\ gifts[g].status = "in_pool"

(***************************************************************************)
(* C15: requests served one at a time, users A, B and C.  From the empty   *)
(* store a wrap by A creates G1 in_pool; with G1 alone and in the pool,    *)
(* draw(B) returns G1 in_pool and claim(G1, B) succeeds with status        *)
(* claimed and recipient B; with G1 claimed by B, claim(G1, C) returns 409 *)
(* and open(G1, B) succeeds with wrapped = false and status opened; with   *)
(* G1 opened, open(G1, B) succeeds again and leaves the gift as it is.     *)
(***************************************************************************)
G1Alone(status, recipient_id, wrapped) ==
    /\ DOMAIN gifts = {"G1"}
    /\ gifts["G1"].creator_id = "A"
    /\ gifts["G1"].status = status
    /\ gifts["G1"].recipient_id = recipient_id
    /\ gifts["G1"].wrapped = wrapped

Answered(op, gift_id, user_id) ==
    resp'.op = op /\ resp'.gift_id = gift_id /\ resp'.user_id = user_id

C15_Scenario ==
    [][/\ (gifts = <<>> /\ Answered("wrap", NULL, "A"))
            => /\ resp'.code = 200
               /\ DOMAIN gifts' = {"G1"}
               /\ gifts'["G1"].creator_id = "A"
               /\ gifts'["G1"].status = "in_pool"
       /\ (G1Alone("in_pool", NULL, TRUE) /\ Answered("draw", NULL, "B"))
            => /\ resp'.code = 200
               /\ resp'.body = <<gifts["G1"]>>
               /\ resp'.body[1].status = "in_pool"
       /\ (G1Alone("in_pool", NULL, TRUE) /\ Answered("claim", "G1", "B"))
            => /\ resp'.code = 200
               /\ resp'.body[1].status = "claimed"
               /\ gifts'["G1"].status = "claimed"
               /\ gifts'["G1"].recipient_id = "B"
       /\ (G1Alone("claimed", "B", TRUE) /\ Answered("claim", "G1", "C"))
            => /\ resp'.code = 409
               /\ gifts' = gifts
       /\ (G1Alone("claimed", "B", TRUE) /\ Answered("open", "G1", "B"))
            => /\ resp'.code = 200
               /\ gifts'["G1"].wrapped = FALSE
               /\ gifts'["G1"].status = "opened"
       /\ (G1Alone("opened", "B", FALSE) /\ Answered("open", "G1", "B"))
            => /\ resp'.code = 200
               /\ gifts' = gifts]_vars

(* The end of the scenario: G1, created by A, claimed once and opened by   *)
(* B, after a wrap and two claims and with no claim left to answer.        *)
C15_Witness ==
    /\ G1Alone("opened", "B", FALSE)
    /\ resp = Response("open", "G1", "B", 200, <<gifts["G1"]>>)
    /\ gift_openings = SetToBag({Opening("G1", "B")})
    /\ Stored(TheClient) = 3
    /\ \A r \in Reqs : claims[r].pc = "done"

(***************************************************************************)
(* C16: no step deletes an object uploaded by generate that a gift refers  *)
(* to by its model_url or by an entry of its objects.                      *)
(***************************************************************************)
C16_GiftObjectsKept ==
    [][\A file_path \in TempPaths :
          (file_path \in storage /\ file_path \notin storage')
              => \A g \in DOMAIN gifts :
                    get_public_url(file_path) \notin GiftUrls(gifts[g])]_vars

(***************************************************************************)
(* C17: a cleanup deletes only objects of the temp folder; a cleanup whose *)
(* URL is not that of an object of the temp folder deletes nothing and     *)
(* answers success = false; and a cleanup changes no gift.                 *)
(***************************************************************************)
C17_CleanupOnlyTemp ==
    [][\A url \in CleanupUrls :
          (Cleanup(url) /\ resp'.code = 200)
              => /\ \A file_path \in storage \ storage' : file_path[1] = "temp"
                 /\ url \notin TempUrls
                      => (storage' = storage /\ resp'.body = <<FALSE>>)
                 /\ gifts' = gifts]_vars

(***************************************************************************)
(* C18: the opening events only grow; a claim that returns 200 adds one    *)
(* event, of its gift and its user, and no other step adds any; and when   *)
(* no claim is under way, every gift that is not in_pool has exactly one   *)
(* event, whose opener is the gift's recipient.                            *)
(***************************************************************************)
EventsOf(log, g) == {e \in BagToSet(log) : e.gift_id = g}

C18_OpeningLog ==
    [][/\ \A e \in BagToSet(gift_openings) :
             CopiesIn(e, gift_openings') >= CopiesIn(e, gift_openings)
       /\ IF resp'.op = "claim" /\ resp'.code = 200
          THEN gift_openings' =
                  gift_openings (+) SetToBag({Opening(resp'.gift_id, resp'.user_id)})
          ELSE gift_openings' = gift_openings
       /\ (\A r \in Reqs : claims'[r].pc # "update")
            => \A g \in DOMAIN gifts' :
                  gifts'[g].status # "in_pool"
                      => /\ EventsOf(gift_openings', g) =
                               {Opening(g, gifts'[g].recipient_id)}
                         /\ CopiesIn(Opening(g, gifts'[g].recipient_id),
                                     gift_openings') = 1]_vars

(***************************************************************************)
(* C19: a request with a malformed user_id or gift_id is refused (400, or  *)
(* 422 for a request body) and changes no gift, no opening event, no       *)
(* stored object and not the limiter's store.                              *)
(***************************************************************************)
C19_MalformedRejected ==
    [][(resp'.user_id \in MalformedIds \/ resp'.gift_id \in MalformedIds)
          => /\ resp'.op \in {"wrap", "draw", "claim", "open", "get",
                              "list_created", "list_received"}
             /\ resp'.code \in {400, 422}
             /\ resp'.body = <<>>
             /\ gifts' = gifts
             /\ gift_openings' = gift_openings
             /\ storage' = storage
             /\ rate_limit_store' = rate_limit_store]_vars

(* A claim with a malformed gift_id has just been refused, after a wrap    *)
(* had been admitted by the limiter.                                       *)
C19_Witness ==
    /\ resp.op = "claim"
    /\ resp.gift_id \in MalformedIds
    /\ resp.code = 422
    /\ gifts # <<>>
    /\ Stored(TheClient) > 0

(***************************************************************************)
(* C20: list_created(u) returns each gift created by u once and no other,  *)
(* by created_at descending; list_received(u) returns each gift whose      *)
(* recipient is u once and no other, by claimed_at descending, none of     *)
(* them created by u; neither changes anything.                            *)
(***************************************************************************)
Lists(body, rows) ==
    /\ Len(body) = Cardinality(rows)
    /\ {body[i] : i \in 1..Len(body)} = {gifts[g] : g \in rows}

C20_Lists ==
    [][/\ (resp'.op = "list_created" /\ resp'.code = 200)
            => /\ Lists(resp'.body,
                        {g \in DOMAIN gifts : gifts[g].creator_id = resp'.user_id})
               /\ \A i, j \in 1..Len(resp'.body) :
                     i < j => resp'.body[i].created_at >= resp'.body[j].created_at
       /\ (resp'.op = "list_received" /\ resp'.code = 200)
            => /\ Lists(resp'.body,
                        {g \in DOMAIN gifts : gifts[g].recipient_id = resp'.user_id})
               /\ \A i, j \in 1..Len(resp'.body) :
                     i < j => resp'.body[i].claimed_at >= resp'.body[j].claimed_at
               /\ \A i \in 1..Len(resp'.body) :
                     resp'.body[i].creator_id # resp'.user_id
       /\ resp'.op \in {"list_created", "list_received"}
            => /\ gifts' = gifts
               /\ gift_openings' = gift_openings
               /\ storage' = storage
               /\ rate_limit_store' = rate_limit_store
               /\ claims' = claims]_vars

(* A user who has claimed two gifts has just listed them, the later claim  *)
(* first.                                                                  *)
C20_Witness ==
    /\ resp.op = "list_received"
    /\ Len(resp.body) = 2
    /\ resp.body[1].claimed_at > resp.body[2].claimed_at

(***************************************************************************)
(* C21: a claim or an open on gift g changes no other gift, and its        *)
(* outcome depends on no other gift: every step of a claim (availability   *)
(* query, update) and every open leaves the rows of the other gifts as     *)
(* they are, writes the row of g as StepRow says and answers as StepCode   *)
(* says, both of which read the row of g alone.  The rows of g and the     *)
(* answers are then those of the steps on g in their order, however the    *)
(* steps on other gifts fall between them.  claimed_at, the time of the    *)
(* claim, is left out of the comparison.                                   *)
(***************************************************************************)
Step(kind, gift_id, user_id) == [kind |-> kind, gift_id |-> gift_id, user_id |-> user_id]

(* The row of gift g in table gs, without its claimed_at: <<row>>, or <<>> *)
(* when there is none.                                                     *)
RowOf(gs, g) == IF g \in DOMAIN gs THEN <<[gs[g] EXCEPT !.claimed_at = 0]>> ELSE <<>>

StepRow(rows, s) ==
    IF rows = <<>> THEN rows
    ELSE IF s.kind = "update"
    THEN <<[rows[1] EXCEPT !.recipient_id = s.user_id, !.status = "claimed"]>>
    ELSE IF s.kind = "open" /\ rows[1].recipient_id = s.user_id
    THEN <<[rows[1] EXCEPT !.wrapped = FALSE, !.status = "opened"]>>
    ELSE rows

StepCode(rows, s) ==
    IF s.kind = "check"
    THEN IF rows = <<>> \/ rows[1].status # "in_pool" \/ rows[1].recipient_id # NULL
         THEN 409
         ELSE IF rows[1].creator_id = s.user_id THEN 400 ELSE 0
    ELSE IF s.kind = "update"
    THEN IF rows # <<>> THEN 200 ELSE 500
    ELSE IF rows # <<>> /\ rows[1].recipient_id = s.user_id THEN 200 ELSE 404

(* The step being taken is s and its answer is code (0: the claim goes on  *)
(* to its update).                                                         *)
Conforms(s, code) ==
    LET rows == RowOf(gifts, s.gift_id)
    IN  /\ code = StepCode(rows, s)
        /\ DOMAIN gifts' = DOMAIN gifts
        /\ \A h \in DOMAIN gifts \ {s.gift_id} : gifts'[h] = gifts[h]
        /\ RowOf(gifts', s.gift_id) = StepRow(rows, s)

C21_DifferentGiftsIndependent ==
    [][/\ \A r \in Reqs :
             Arrives(r)
                 => Conforms(Step("check", ArrivingGift(r), ArrivingUser(r)),
                             IF claims'[r].pc = "update" THEN 0 ELSE resp'.code)
       /\ \A r \in Reqs :
             (claims[r].pc = "update" /\ claims'[r].pc = "done")
                 => Conforms(Step("update", claims[r].gift_id, claims[r].user_id),
                             resp'.code)
       /\ resp'.op = "open"
             => Conforms(Step("open", resp'.gift_id, resp'.user_id), resp'.code)]_vars

(* A claim of one gift has just succeeded while a claim of another gift is *)
(* between its query and its update: two claims run in parallel.           *)
C21_Witness ==
    /\ resp.op = "claim"
    /\ resp.code = 200
    /\ \E r \in Reqs :
          /\ claims[r].pc = "update"
          /\ claims[r].gift_id # resp.gift_id
          /\ claims[r].gift_id \in DOMAIN gifts

(***************************************************************************)
(* C22: no step removes a gift, and no step changes the id, creator_id,    *)
(* name, prompt, model_url or objects of a gift: the set of gift ids only  *)
(* grows and those fields keep the values given at wrap.                   *)
(***************************************************************************)
C22_GiftsKeptAndFieldsFixed ==
    [][/\ DOMAIN gifts \subseteq DOMAIN gifts'
       /\ \A g \in DOMAIN gifts :
             /\ gifts'[g].id = g
             /\ gifts'[g].id = gifts[g].id
             /\ gifts'[g].creator_id = gifts[g].creator_id
             /\ gifts'[g].name = gifts[g].name
             /\ gifts'[g].prompt = gifts[g].prompt
             /\ gifts'[g].model_url = gifts[g].model_url
             /\ gifts'[g].objects = gifts[g].objects]_vars

(* A cleanup has just deleted the uploaded model, after a gift had been    *)
(* wrapped, claimed and opened; the gift is still there.                   *)
C22_Witness ==
    /\ resp.op = "cleanup"
    /\ resp.body = <<TRUE>>
    /\ storage = {}
    /\ \E g \in DOMAIN gifts :
          /\ gifts[g].status = "opened"
          /\ gifts[g].model_url = UrlA
          /\ gifts[g].objects = <<DefaultObject(UrlA)>>

(***************************************************************************)
(* C23: calls of create_or_get_user served one at a time.  A call that is  *)
(* answered with a user for an email that has a row, in whatever case the  *)
(* request writes it, returns that row and inserts nothing; a call for an  *)
(* email without a row inserts one row, with the email in lower case, and  *)
(* returns it; there is at most one row per email, every email in lower    *)
(* case; and a call repeated with the email of the call before it returns  *)
(* the same user id.                                                       *)
(***************************************************************************)
(* The email that the request names: without the space, in lower case.     *)
EmailOf(input) ==
    LET i == CHOOSE j \in DOMAIN LowerEmails :
                 input \in {LowerEmails[j], UpperEmails[j], PaddedEmails[j]}
    IN  LowerEmails[i]

IsLowerCase(email) ==
    \/ \E i \in DOMAIN LowerEmails : LowerEmails[i] = email
    \/ \E u \in Users : RegisteredUsers[u].email = email

Answers(r) == r.op = "create_or_get_user" /\ r.code = 200

C23_OneUserPerEmail ==
    [][/\ Answers(resp')
            => LET email == EmailOf(resp'.user_id)
                   had == {u \in DOMAIN users : users[u].email = email}
               IN  /\ resp'.body[1].email = email
                   /\ had # {} => (users' = users /\ resp'.body[1].id \in had)
                   /\ had = {}
                        => /\ resp'.body[1].id \notin DOMAIN users
                           /\ users' = users @@ (resp'.body[1].id :> resp'.body[1])
       /\ ~Answers(resp') => users' = users
       /\ \A u1, u2 \in DOMAIN users' :
             /\ IsLowerCase(users'[u1].email)
             /\ users'[u1].email = users'[u2].email => u1 = u2
       /\ (Answers(resp) /\ Answers(resp') /\ EmailOf(resp'.user_id) = EmailOf(resp.user_id))
            => resp'.body[1].id = resp.body[1].id]_vars

(* A call with a new email in upper case has just returned the user that   *)
(* an earlier call had created, and no second row was inserted.            *)
C23_Witness ==
    /\ Answers(resp)
    /\ resp.user_id = UpperEmails[2]
    /\ resp.body = <<[id |-> "U1", email |-> LowerEmails[2]]>>
    /\ DOMAIN users = Users \cup {"U1"}
    /\ Stored(TheClient) >= 2

(***************************************************************************)
(* C24: a claim that returns success answers wrapped = false and leaves    *)
(* the stored wrapped flag as it was, true; the stored flag becomes false  *)
(* only by an open of the gift; and a get of a gift whose status is        *)
(* claimed reports wrapped = true.                                         *)
(***************************************************************************)
C24_ClaimKeepsWrapped ==
    [][/\ (resp'.op = "claim" /\ resp'.code = 200)
            => /\ resp'.body[1].wrapped = FALSE
               /\ gifts'[resp'.gift_id].wrapped = gifts[resp'.gift_id].wrapped
               /\ gifts'[resp'.gift_id].wrapped = TRUE
       /\ \A g \in DOMAIN gifts :
             (gifts[g].wrapped /\ ~gifts'[g].wrapped)
                 => (resp'.op = "open" /\ resp'.gift_id = g /\ resp'.code = 200)
       /\ (resp'.op = "get" /\ resp'.code = 200 /\ resp'.body[1].status = "claimed")
            => resp'.body[1].wrapped = TRUE]_vars

(***************************************************************************)
(* C25: once a claim of gift g by user u has returned success, every open  *)
(* of g by u succeeds and every list_received of u contains g, whatever    *)
(* claims of other users are under way.                                    *)
(***************************************************************************)
C25_WinnerKeepsGift ==
    [][/\ (resp'.op = "open" /\ resp'.user_id \in Winners(resp'.gift_id))
            => resp'.code = 200
       /\ resp'.op = "list_received"
            => \A g \in DOMAIN gifts :
                  resp'.user_id \in Winners(g)
                      => \E i \in 1..Len(resp'.body) : resp'.body[i].id = g]_vars

(***************************************************************************)
(* C26: in every state and for every gift, the stored wrapped flag is      *)
(* false if and only if the status is opened.                              *)
(***************************************************************************)
C26_UnwrappedIffOpened ==
    \A g \in DOMAIN gifts : (gifts[g].wrapped = FALSE) <=> (gifts[g].status = "opened")

(***************************************************************************)
(* C27: after each call of check_rate_limit for a client, the client's     *)
(* list holds at most RATE_LIMIT_REQUESTS timestamps, all of them newer    *)
(* than the time of the call less RATE_LIMIT_WINDOW and none later than    *)
(* the call; the call is allowed exactly when fewer than                   *)
(* RATE_LIMIT_REQUESTS stored timestamps are that new, and then adds its   *)
(* own time, once; and for every client and every time t, at most          *)
(* RATE_LIMIT_REQUESTS stored timestamps lie in the window of              *)
(* RATE_LIMIT_WINDOW seconds that ends at t (after t - RATE_LIMIT_WINDOW,  *)
(* up to t).                                                               *)
(***************************************************************************)
Checked(r) == r.op = "check_rate_limit"

(* The step being taken is a call of check_rate_limit, not the passing of  *)
(* time.                                                                   *)
Checks == Checked(resp') /\ clock' = clock

(* The number of timestamps of the bag after time from, up to time to.     *)
CountIn(list, from, to) ==
    BagCardinality([ts \in {t \in DOMAIN list : t > from /\ t <= to} |-> list[ts]])

C27_SlidingWindowLimit ==
    [][/\ Checks
            => LET c == resp'.user_id
                   recent == CountIn(rate_limit_store[c], clock - RATE_LIMIT_WINDOW, clock)
               IN  /\ BagCardinality(rate_limit_store'[c]) <= RATE_LIMIT_REQUESTS
                   /\ \A ts \in DOMAIN rate_limit_store'[c] :
                         ts > clock - RATE_LIMIT_WINDOW /\ ts <= clock
                   /\ (resp'.code = 200) <=> (recent < RATE_LIMIT_REQUESTS)
                   /\ resp'.code = 200
                        => CopiesIn(clock, rate_limit_store'[c])
                              = CopiesIn(clock, rate_limit_store[c]) + 1
       /\ \A c \in Clients :
             \A t \in DOMAIN rate_limit_store'[c] :
                 CountIn(rate_limit_store'[c], t - RATE_LIMIT_WINDOW, t)
                     <= RATE_LIMIT_REQUESTS]_vars

(* A client whose list holds RATE_LIMIT_REQUESTS timestamps of two         *)
(* different times within one window has just been refused.                *)
C27_Witness ==
    /\ Checked(resp)
    /\ resp.code = 429
    /\ Stored(resp.user_id) = RATE_LIMIT_REQUESTS
    /\ Cardinality(DOMAIN rate_limit_store[resp.user_id]) = 2

(***************************************************************************)
(* C28: a call of check_rate_limit that returns False adds no timestamp to *)
(* the client's list; a call for one client leaves the lists of the other  *)
(* clients as they are; and a client that was refused and sends its next   *)
(* request RATE_LIMIT_WINDOW seconds later or more is allowed.             *)
(***************************************************************************)
C28_RefusalRecordsNothing ==
    [][Checks
          => LET c == resp'.user_id
             IN  /\ resp'.code = 429
                      => \A ts \in DOMAIN rate_limit_store'[c] \cup {clock} :
                            CopiesIn(ts, rate_limit_store'[c])
                                <= CopiesIn(ts, rate_limit_store[c])
                 /\ \A d \in Clients \ {c} : rate_limit_store'[d] = rate_limit_store[d]
                 /\ ( /\ Checked(resp)
                      /\ resp.user_id = c
                      /\ resp.code = 429
                      /\ clock - resp.body[1] >= RATE_LIMIT_WINDOW )
                      => resp'.code = 200]_vars

(* A client that was refused has just been allowed, a window later, while  *)
(* the other client's list still holds all the timestamps it held.         *)
C28_Witness ==
    /\ Checked(resp)
    /\ resp = Response("check_rate_limit", NULL, "10.0.0.1", 200, <<RATE_LIMIT_WINDOW>>)
    /\ rate_limit_store["10.0.0.1"] = SetToBag({RATE_LIMIT_WINDOW})
    /\ Stored("10.0.0.2") = RATE_LIMIT_REQUESTS
====
